---- MODULE Spec2Model ----
(***************************************************************************)
(* Model of flytekit's StructuredDatasetTransformerEngine: the handler     *)
(* registry (ENCODERS, DECODERS, DEFAULT_PROTOCOLS, DEFAULT_FORMATS) and   *)
(* the dispatch operations to_literal / encode / to_python_value /         *)
(* get_literal_type, and of the argument parsing of the SageMaker runner   *)
(* script (scripts/flytekit_sagemaker_runner.py).                          *)
(*                                                                         *)
(* Python values are modelled as follows.                                  *)
(*   - a dict is a function whose DOMAIN is the set of its keys;           *)
(*   - a str used as a URI is a sequence of one-character strings, so that *)
(*     the regular expression of to_literal is computed on its characters; *)
(*   - an object is a record whose field cls names its class (a dataframe  *)
(*     has no other field); None is PyNone where an object is expected,    *)
(*     the string None where a str or bool is expected, and NoUri where a  *)
(*     URI is expected;                                                    *)
(*   - an operation returns a record whose field outcome is "return" or    *)
(*     the name of the exception it raised, together with the handlers it  *)
(*     invoked and the class-level tables it read.                         *)
(***************************************************************************)
EXTENDS Naturals, Sequences, FiniteSets, TLC

\* The transformer engine: the four class-level dicts; last is the latest call
\* with its arguments and what it reported; affirmed is the set of dataframe
\* types for which an encoder was registered with default_for_type true.
VARIABLES ENCODERS, DECODERS, DEFAULT_PROTOCOLS, DEFAULT_FORMATS, last, affirmed

\* Dispatch calls in flight, one per calling thread.
VARIABLES calls

\* The runner script: its module-level variables and the position reached.
VARIABLES unknowns, i, flyte_cmd, env_vars, pc

registry == <<ENCODERS, DECODERS, DEFAULT_PROTOCOLS, DEFAULT_FORMATS>>

runnerVars == <<unknowns, i, flyte_cmd, env_vars, pc>>

vars == <<ENCODERS, DECODERS, DEFAULT_PROTOCOLS, DEFAULT_FORMATS, last, affirmed,
          calls, unknowns, i, flyte_cmd, env_vars, pc>>

(* ---------------------------------------------------------------------- *)
(* Bounds and input sets                                                   *)
(* ---------------------------------------------------------------------- *)

\* At most this many handlers are stored in the two tables together.
MaxHandlers == 3

None == "None"
PyNone == [cls |-> "NoneType"]
NoUri == << None >>
Omitted == "omitted"

\* Dataframe classes (registry keys).
DataframeTypes == {"Frame", "Table"}

\* The dataframe values passed in, one of each class.
Dataframes == { [cls |-> t] : t \in DataframeTypes }

\* The wrapper class and the class built by StructuredDataset[columns].
WrapperTypes == {"StructuredDataset", "_TypedStructuredDataset"}

\* Python truthiness of the values that occur as arguments here.
Truthy(v) == v \notin {None, "False", ""}

(* ---------------------------------------------------------------------- *)
(* dict helpers                                                            *)
(* ---------------------------------------------------------------------- *)

EmptyDict == [k \in {} |-> k]

\* d[k] = v
DictSet(d, k, v) == [x \in (DOMAIN d) \cup {k} |-> IF x = k THEN v ELSE d[x]]

(* ---------------------------------------------------------------------- *)
(* Handlers                                                                *)
(* ---------------------------------------------------------------------- *)

\* StructuredDatasetEncoder.__init__; name is the identity of the object.
StructuredDatasetEncoder(name, python_type, protocol, supported_format) ==
    [kind |-> "encoder", name |-> name, python_type |-> python_type,
     protocol |-> protocol,
     supported_format |-> IF Truthy(supported_format) THEN supported_format ELSE ""]

\* StructuredDatasetDecoder.__init__
StructuredDatasetDecoder(name, python_type, protocol, supported_format) ==
    [kind |-> "decoder", name |-> name, python_type |-> python_type,
     protocol |-> protocol,
     supported_format |-> IF Truthy(supported_format) THEN supported_format ELSE ""]

\* An object that is neither an encoder nor a decoder.
NotAHandler ==
    [kind |-> "object", name |-> "obj", python_type |-> "Frame",
     protocol |-> "gs", supported_format |-> "parquet"]

\* The handler objects that exist in the process and may be registered.
Handlers ==
    { StructuredDatasetEncoder("e_gs_pq",   "Frame", "gs", "parquet"),
      StructuredDatasetEncoder("e_gs_pq_2", "Frame", "gs", "parquet"),
      StructuredDatasetEncoder("e_s3_csv",  "Frame", "s3", "csv"),
      StructuredDatasetEncoder("e_gs_any",  "Frame", "gs", None),
      StructuredDatasetEncoder("e_gs_empty","Frame", "gs", ""),
      StructuredDatasetEncoder("e_t_s3_csv","Table", "s3", "csv"),
      StructuredDatasetDecoder("d_gs_pq",   "Frame", "gs", "parquet"),
      StructuredDatasetDecoder("d_s3_csv",  "Frame", "s3", "csv"),
      NotAHandler }

\* The (type, protocol, format) keys at which a table holds a handler.
Entries(top_level) ==
    UNION { UNION { { <<t, p, f>> : f \in DOMAIN top_level[t][p] }
                    : p \in DOMAIN top_level[t] }
            : t \in DOMAIN top_level }

HasEntry(top_level, t, p, f) ==
    /\ t \in DOMAIN top_level
    /\ p \in DOMAIN top_level[t]
    /\ f \in DOMAIN top_level[t][p]

NumHandlers == Cardinality(Entries(ENCODERS)) + Cardinality(Entries(DECODERS))

(* ---------------------------------------------------------------------- *)
(* Registration                                                            *)
(* ---------------------------------------------------------------------- *)

\* A _handler_finder that assigns a fresh dict to the protocol level without
\* testing whether the level exists.
handler_finder_reset(h) ==
    IF h.kind \notin {"encoder", "decoder"}
    THEN [outcome |-> "TypeError", ENCODERS |-> ENCODERS, DECODERS |-> DECODERS]
    ELSE LET top_level == IF h.kind = "encoder" THEN ENCODERS ELSE DECODERS
             l1 == IF h.python_type \notin DOMAIN top_level
                   THEN DictSet(top_level, h.python_type, EmptyDict)
                   ELSE top_level
             l2 == DictSet(l1, h.python_type,
                           DictSet(l1[h.python_type], h.protocol, EmptyDict))
         IN  [outcome |-> "return",
              ENCODERS |-> IF h.kind = "encoder" THEN l2 ELSE ENCODERS,
              DECODERS |-> IF h.kind = "decoder" THEN l2 ELSE DECODERS]

\* _handler_finder: selects the table by the handler's class and creates the
\* intermediate levels; returns both tables as they are after the call.
handler_finder(h) ==
    IF h.kind \notin {"encoder", "decoder"}
    THEN [outcome |-> "TypeError", ENCODERS |-> ENCODERS, DECODERS |-> DECODERS]
    ELSE LET top_level == IF h.kind = "encoder" THEN ENCODERS ELSE DECODERS
             l1 == IF h.python_type \notin DOMAIN top_level
                   THEN DictSet(top_level, h.python_type, EmptyDict)
                   ELSE top_level
             l2 == IF h.protocol \notin DOMAIN l1[h.python_type]
                   THEN DictSet(l1, h.python_type,
                                DictSet(l1[h.python_type], h.protocol, EmptyDict))
                   ELSE l1
         IN  [outcome |-> "return",
              ENCODERS |-> IF h.kind = "encoder" THEN l2 ELSE ENCODERS,
              DECODERS |-> IF h.kind = "decoder" THEN l2 ELSE DECODERS]

\* A register_handler without the duplicate test.
already_registered_never(lowest_level, h) == FALSE

\* The duplicate test of register_handler: h.supported_format in lowest_level.
already_registered(lowest_level, h) == h.supported_format \in DOMAIN lowest_level

\* A register_handler that records the default format without the default
\* protocol.
set_default_protocol_skipped(h) == DEFAULT_PROTOCOLS

\* self.DEFAULT_PROTOCOLS[h.python_type] = h.protocol
set_default_protocol(h) == DictSet(DEFAULT_PROTOCOLS, h.python_type, h.protocol)

\* A register_handler that records the defaults whatever default_for_type is.
set_defaults_always(h, default_for_type) ==
    [DEFAULT_FORMATS |-> DictSet(DEFAULT_FORMATS, h.python_type, h.supported_format),
     DEFAULT_PROTOCOLS |-> DictSet(DEFAULT_PROTOCOLS, h.python_type, h.protocol)]

\* The tail of register_handler: the two default dicts after
\* `if default_for_type:` and its two assignments.
set_defaults(h, default_for_type) ==
    IF Truthy(default_for_type)
    THEN [DEFAULT_FORMATS |-> DictSet(DEFAULT_FORMATS, h.python_type, h.supported_format),
          DEFAULT_PROTOCOLS |-> set_default_protocol(h)]
    ELSE [DEFAULT_FORMATS |-> DEFAULT_FORMATS,
          DEFAULT_PROTOCOLS |-> DEFAULT_PROTOCOLS]

\* A register_handler whose duplicate test looks in both tables, as if
\* encoders and decoders shared one table.
register_handler_shared(h, default_for_type) ==
    LET found == handler_finder(h)
        top_level == IF h.kind = "encoder" THEN found.ENCODERS ELSE found.DECODERS
    IN  IF found.outcome # "return"
        THEN [outcome |-> found.outcome,
              ENCODERS |-> found.ENCODERS, DECODERS |-> found.DECODERS,
              DEFAULT_FORMATS |-> DEFAULT_FORMATS,
              DEFAULT_PROTOCOLS |-> DEFAULT_PROTOCOLS]
        ELSE IF \/ HasEntry(ENCODERS, h.python_type, h.protocol, h.supported_format)
                \/ HasEntry(DECODERS, h.python_type, h.protocol, h.supported_format)
        THEN [outcome |-> "ValueError",
              ENCODERS |-> found.ENCODERS, DECODERS |-> found.DECODERS,
              DEFAULT_FORMATS |-> DEFAULT_FORMATS,
              DEFAULT_PROTOCOLS |-> DEFAULT_PROTOCOLS]
        ELSE LET inserted ==
                     DictSet(top_level, h.python_type,
                         DictSet(top_level[h.python_type], h.protocol,
                             DictSet(top_level[h.python_type][h.protocol],
                                     h.supported_format, h)))
             IN  [outcome |-> "return",
                  ENCODERS |-> IF h.kind = "encoder" THEN inserted ELSE found.ENCODERS,
                  DECODERS |-> IF h.kind = "decoder" THEN inserted ELSE found.DECODERS,
                  DEFAULT_FORMATS |-> set_defaults(h, default_for_type).DEFAULT_FORMATS,
                  DEFAULT_PROTOCOLS |->
                      set_defaults(h, default_for_type).DEFAULT_PROTOCOLS]

\* register_handler(h, default_for_type): the outcome and the four class-level
\* dicts after the call.
register_handler(h, default_for_type) ==
    LET found == handler_finder(h)
        top_level == IF h.kind = "encoder" THEN found.ENCODERS ELSE found.DECODERS
    IN  IF found.outcome # "return"
        THEN [outcome |-> found.outcome,
              ENCODERS |-> found.ENCODERS, DECODERS |-> found.DECODERS,
              DEFAULT_FORMATS |-> DEFAULT_FORMATS,
              DEFAULT_PROTOCOLS |-> DEFAULT_PROTOCOLS]
        ELSE IF already_registered(top_level[h.python_type][h.protocol], h)
        THEN [outcome |-> "ValueError",
              ENCODERS |-> found.ENCODERS, DECODERS |-> found.DECODERS,
              DEFAULT_FORMATS |-> DEFAULT_FORMATS,
              DEFAULT_PROTOCOLS |-> DEFAULT_PROTOCOLS]
        ELSE LET inserted ==
                     DictSet(top_level, h.python_type,
                         DictSet(top_level[h.python_type], h.protocol,
                             DictSet(top_level[h.python_type][h.protocol],
                                     h.supported_format, h)))
             IN  [outcome |-> "return",
                  ENCODERS |-> IF h.kind = "encoder" THEN inserted ELSE found.ENCODERS,
                  DECODERS |-> IF h.kind = "decoder" THEN inserted ELSE found.DECODERS,
                  DEFAULT_FORMATS |-> set_defaults(h, default_for_type).DEFAULT_FORMATS,
                  DEFAULT_PROTOCOLS |->
                      set_defaults(h, default_for_type).DEFAULT_PROTOCOLS]

\* The values a caller passes as default_for_type (Optional[bool]), or omits.
DefaultForTypeArgs == {Omitted, "True", "False", None}

\* A signature whose parameter defaults to False.
BindDefaultForType_false(arg) == IF arg = Omitted THEN "False" ELSE arg

\* Binding of the parameter default_for_type: Optional[bool] = True.
BindDefaultForType(arg) == IF arg = Omitted THEN "True" ELSE arg

(* ---------------------------------------------------------------------- *)
(* Values that cross the dispatcher                                        *)
(* ---------------------------------------------------------------------- *)

\* Characters matched by \w among those that occur in the URIs below.
WordChars == {"s", "3", "g", "b", "p"}

RECURSIVE Join(_)
\* "".join(chars)
Join(chars) == IF chars = <<>> THEN "" ELSE Head(chars) \o Join(Tail(chars))

\* re.search(r"([\w]+)://.*", uri): None when nothing matches, otherwise the
\* match object, of which only groups() is used.  The match starts at the
\* leftmost position from which a run of word characters is followed
\* directly by "://".
re_search(uri) ==
    LET RunEnd(st, j) ==
            /\ \A k \in st..(j - 1) : uri[k] \in WordChars
            /\ j + 2 <= Len(uri)
            /\ uri[j] = ":" /\ uri[j + 1] = "/" /\ uri[j + 2] = "/"
        Starts == { st \in 1..Len(uri) : \E j \in (st + 1)..Len(uri) : RunEnd(st, j) }
    IN  IF Starts = {}
        THEN PyNone
        ELSE LET st == CHOOSE a \in Starts : \A b \in Starts : a <= b
                 j == CHOOSE e \in (st + 1)..Len(uri) : RunEnd(st, e)
             IN  [groups |-> << Join(SubSeq(uri, st, j - 1)) >>]

\* The URI strings a wrapper or a literal may carry.
Uris ==
    { <<>>,
      <<"s", "3", ":", "/", "/", "b">>,
      <<"g", "s", ":", "/", "/", "b">>,
      <<"/", "p">> }

\* Python truthiness of an Optional[str] URI.
UriTruthy(uri) == uri # NoUri /\ uri # <<>>

\* StructuredDataset.__init__(dataframe, uri, file_format="parquet", metadata)
StructuredDataset(dataframe, uri, file_format, metadata) ==
    [cls |-> "StructuredDataset",
     dataframe |-> dataframe,
     uri |-> uri,
     file_format |-> IF file_format = Omitted THEN "parquet" ELSE file_format,
     metadata |-> metadata]

\* Binding of keyword arguments to StructuredDataset.__init__: a keyword that
\* is not a parameter raises TypeError.
StructuredDataset_call(kwargs) ==
    IF ~(DOMAIN kwargs \subseteq {"dataframe", "uri", "file_format", "metadata"})
    THEN [outcome |-> "TypeError", value |-> PyNone]
    ELSE [outcome |-> "return",
          value |-> StructuredDataset(
              IF "dataframe" \in DOMAIN kwargs THEN kwargs.dataframe ELSE PyNone,
              IF "uri" \in DOMAIN kwargs THEN kwargs.uri ELSE NoUri,
              IF "file_format" \in DOMAIN kwargs THEN kwargs.file_format ELSE Omitted,
              IF "metadata" \in DOMAIN kwargs THEN kwargs.metadata ELSE PyNone)]

\* isinstance(v, StructuredDataset)
IsWrapper(v) == v.cls \in WrapperTypes

\* A test for the class itself instead of issubclass.
issubclass_exact(t) == t = "StructuredDataset"

\* issubclass(t, StructuredDataset)
issubclass_StructuredDataset(t) == t \in WrapperTypes

\* type(v)
TypeOf(v) == v.cls

\* A metadata block built without the schema that was passed in.
StructuredDatasetMetadata_noschema(format, structured_dataset_type) ==
    [format |-> format, structured_dataset_type |-> [columns |-> <<>>]]

\* StructuredDatasetMetadata(format, structured_dataset_type)
StructuredDatasetMetadata(format, structured_dataset_type) ==
    [format |-> format, structured_dataset_type |-> structured_dataset_type]

\* StructuredDatasetType(columns)
StructuredDatasetType(columns) == [columns |-> columns]

\* LiteralType(structured_dataset_type)
LiteralType(structured_dataset_type) ==
    [structured_dataset_type |-> structured_dataset_type]

\* Literal(scalar=Scalar(structured_dataset=sd_model))
Literal(sd_model) == [scalar |-> [structured_dataset |-> sd_model]]

\* The expected literal types handed to to_literal (schema hints).
LiteralTypes ==
    { LiteralType(StructuredDatasetType(<<>>)),
      LiteralType(StructuredDatasetType(<<"a">>)) }

\* The file_format arguments with which callers build wrappers.
FileFormatArgs == {Omitted, "csv"}

\* The arguments with which user code builds a wrapper around a dataframe.
WrapperArgs ==
    [dataframe : Dataframes, uri : Uris \cup {NoUri}, file_format : FileFormatArgs]

\* One character per character of a protocol name.
Chars(protocol) == IF protocol = "gs" THEN <<"g", "s">> ELSE <<"s", "3">>

\* StructuredDatasetEncoder.encode is abstract.  The handlers of this model
\* write to the wrapper's URI when it has one and otherwise to a location of
\* their own protocol, and describe what they wrote by the wrapper's
\* metadata when it has one and otherwise by their own format.
handler_encode(h, sd) ==
    [uri |-> IF UriTruthy(sd.uri) THEN sd.uri
             ELSE Chars(h.protocol) \o <<":", "/", "/", "b">>,
     metadata |-> IF sd.metadata # PyNone THEN sd.metadata
                  ELSE StructuredDatasetMetadata(sd.file_format,
                                                 StructuredDatasetType(<<>>))]

(* ---------------------------------------------------------------------- *)
(* Dispatch                                                                *)
(* ---------------------------------------------------------------------- *)

\* What a dispatch call reports: how it ended, the value returned, the key
\* (df_type, protocol, format) handed to encode, the handlers invoked with
\* their argument, and the class-level dicts that were read.  key is <<>>
\* when the call ended before it called encode.
Report(outcome, value, key, invoked, reads) ==
    [outcome |-> outcome, value |-> value, key |-> key,
     invoked |-> invoked, reads |-> reads]

\* An encode that, when the format is missing, takes a handler stored under
\* another format of the same type and protocol.
encode_partial(sd, df_type, protocol, format, reads) ==
    LET key == <<df_type, protocol, format>>
        rd == reads \cup {"ENCODERS"}
    IN  IF df_type \notin DOMAIN ENCODERS
        THEN Report("Exception: not found", PyNone, key, <<>>, rd)
        ELSE IF protocol \notin DOMAIN ENCODERS[df_type]
        THEN Report("Exception: not found 2", PyNone, key, <<>>, rd)
        ELSE IF DOMAIN ENCODERS[df_type][protocol] = {}
        THEN Report("Exception: not found 3", PyNone, key, <<>>, rd)
        ELSE LET f == IF format \in DOMAIN ENCODERS[df_type][protocol] THEN format
                      ELSE CHOOSE x \in DOMAIN ENCODERS[df_type][protocol] : TRUE
                 h == ENCODERS[df_type][protocol][f]
             IN  Report("return", Literal(handler_encode(h, sd)), key,
                        << [handler |-> h.name, arg |-> sd] >>, rd)

\* encode(ctx, sd, df_type, protocol, format); reads are the dicts read
\* before the call.
encode(sd, df_type, protocol, format, reads) ==
    LET key == <<df_type, protocol, format>>
        rd == reads \cup {"ENCODERS"}
    IN  IF df_type \notin DOMAIN ENCODERS
        THEN Report("Exception: not found", PyNone, key, <<>>, rd)
        ELSE IF protocol \notin DOMAIN ENCODERS[df_type]
        THEN Report("Exception: not found 2", PyNone, key, <<>>, rd)
        ELSE IF format \notin DOMAIN ENCODERS[df_type][protocol]
        THEN Report("Exception: not found 3", PyNone, key, <<>>, rd)
        ELSE LET h == ENCODERS[df_type][protocol][format]
                 sd_model == handler_encode(h, sd)
             IN  Report("return", Literal(sd_model), key,
                        << [handler |-> h.name, arg |-> sd] >>, rd)

\* What to_literal has when it calls encode: the arguments of the call and the
\* dicts read so far.
Pending(sd, df_type, protocol, format, reads) ==
    [raised |-> FALSE, sd |-> sd, df_type |-> df_type, protocol |-> protocol,
     format |-> format, reads |-> reads]

\* to_literal ended by an exception before it called encode.
Raised(outcome, reads) ==
    [raised |-> TRUE, report |-> Report(outcome, PyNone, <<>>, <<>>, reads)]

\* to_literal(ctx, python_val, python_type, expected) up to its call of encode.
to_literal_resolve(python_val, python_type, expected) ==
    IF issubclass_StructuredDataset(python_type)
    THEN IF ~IsWrapper(python_val)
         THEN Raised("AssertionError", {})
         ELSE LET df_type == TypeOf(python_val.dataframe)
                  format == python_val.file_format
              IN  IF df_type \notin DOMAIN DEFAULT_PROTOCOLS
                  THEN Raised("KeyError", {"DEFAULT_PROTOCOLS"})
                  ELSE IF UriTruthy(python_val.uri)
                  THEN LET g == re_search(python_val.uri)
                       IN  IF g = PyNone
                           THEN Raised("AttributeError", {"DEFAULT_PROTOCOLS"})
                           ELSE Pending(python_val, df_type,
                                        IF Len(g.groups) > 0 THEN g.groups[1]
                                        ELSE DEFAULT_PROTOCOLS[df_type],
                                        format, {"DEFAULT_PROTOCOLS"})
                  ELSE Pending(python_val, df_type, DEFAULT_PROTOCOLS[df_type],
                               format, {"DEFAULT_PROTOCOLS"})
    ELSE IF python_type \notin DOMAIN DEFAULT_FORMATS
    THEN Raised("KeyError", {"DEFAULT_FORMATS"})
    ELSE IF python_type \notin DOMAIN DEFAULT_PROTOCOLS
    THEN Raised("KeyError", {"DEFAULT_FORMATS", "DEFAULT_PROTOCOLS"})
    ELSE LET fmt == DEFAULT_FORMATS[python_type]
             protocol == DEFAULT_PROTOCOLS[python_type]
             meta == StructuredDatasetMetadata(fmt, expected.structured_dataset_type)
             sd == StructuredDataset(python_val, NoUri, Omitted, meta)
         IN  Pending(sd, python_type, protocol, fmt,
                     {"DEFAULT_FORMATS", "DEFAULT_PROTOCOLS"})

\* to_literal(ctx, python_val, python_type, expected)
to_literal(python_val, python_type, expected) ==
    LET r == to_literal_resolve(python_val, python_type, expected)
    IN  IF r.raised THEN r.report
        ELSE encode(r.sd, r.df_type, r.protocol, r.format, r.reads)

\* A table that behaves like a defaultdict: looking a key up creates its
\* levels.
lookup_effect_defaultdict(top_level, df_type, protocol) ==
    LET l1 == IF df_type \notin DOMAIN top_level
              THEN DictSet(top_level, df_type, EmptyDict) ELSE top_level
    IN  IF protocol \notin DOMAIN l1[df_type]
        THEN DictSet(l1, df_type, DictSet(l1[df_type], protocol, EmptyDict))
        ELSE l1

\* The table after the lookups of encode: the tables are plain dicts, and the
\* `not in` tests and the subscripts of keys that are present insert nothing.
lookup_effect(top_level, df_type, protocol) == top_level

\* ENCODERS after a to_literal call that reported res.
encoders_after(res) ==
    IF res.key = <<>> THEN ENCODERS
    ELSE lookup_effect(ENCODERS, res.key[1], res.key[2])

\* open_as(ctx, lv, python_type): the body is the expression `...`, so the
\* call returns None.
open_as(lv, python_type) == Report("return", PyNone, <<>>, <<>>, {})

\* to_python_value(ctx, lv, expected_python_type)
to_python_value(lv, expected_python_type) ==
    LET uri == lv.scalar.structured_dataset.uri
        meta == lv.scalar.structured_dataset.metadata
    IN  IF issubclass_StructuredDataset(expected_python_type)
        THEN LET made == StructuredDataset_call(
                            [remote_path |-> uri, file_format |-> "fmt",
                             metadata |-> meta])
             IN  Report(made.outcome, made.value, <<>>, <<>>, {})
        ELSE open_as(lv, expected_python_type)

\* A get_literal_type that fills in the columns of a typed wrapper class.
get_literal_type_columns(t) ==
    Report("return",
           LiteralType(StructuredDatasetType(
               IF t = "_TypedStructuredDataset" THEN <<"a">> ELSE <<>>)),
           <<>>, <<>>, {})

\* get_literal_type(t)
get_literal_type(t) ==
    Report("return", LiteralType(StructuredDatasetType(<<>>)), <<>>, <<>>, {})

\* The literals handed to to_python_value besides those encode produced.
Literals ==
    { Literal([uri |-> <<"g", "s", ":", "/", "/", "b">>,
               metadata |-> StructuredDatasetMetadata("parquet",
                                                      StructuredDatasetType(<<>>))]),
      Literal([uri |-> <<"/", "p">>,
               metadata |-> StructuredDatasetMetadata("csv",
                                                      StructuredDatasetType(<<>>))]) }

(* ---------------------------------------------------------------------- *)
(* State machine                                                           *)
(* ---------------------------------------------------------------------- *)

NoCall == [op |-> "none", args |-> EmptyDict, res |-> EmptyDict]

\* The calling threads of the concurrent specification.
Threads == {1, 2}

\* A thread that has not called yet.
Ready == [pc |-> "ready"]

\* The engine after the module is imported: all four dicts empty.
EngineInit ==
    /\ ENCODERS = EmptyDict
    /\ DECODERS = EmptyDict
    /\ DEFAULT_PROTOCOLS = EmptyDict
    /\ DEFAULT_FORMATS = EmptyDict
    /\ last = NoCall
    /\ affirmed = {}
    /\ calls = [t \in Threads |-> Ready]

\* The runner script is not running.
RunnerOff ==
    /\ unknowns = <<>>
    /\ i = 0
    /\ flyte_cmd = <<>>
    /\ env_vars = EmptyDict
    /\ pc = "off"

Init == EngineInit /\ RunnerOff

\* The caller is sequential: it issues a call when it holds no report, and
\* drops the report of a call (Forget) after it has looked at it.  Only the
\* four class-level dicts persist between calls.
Idle == last = NoCall

\* FLYTE_DATASET_TRANSFORMER.register_handler(h[, default_for_type])
Register ==
    \E h \in Handlers, arg \in DefaultForTypeArgs :
        LET r == register_handler(h, BindDefaultForType(arg))
        IN  /\ Idle
            /\ Cardinality(Entries(r.ENCODERS)) + Cardinality(Entries(r.DECODERS))
                   <= MaxHandlers
            /\ ENCODERS' = r.ENCODERS
            /\ DECODERS' = r.DECODERS
            /\ DEFAULT_FORMATS' = r.DEFAULT_FORMATS
            /\ DEFAULT_PROTOCOLS' = r.DEFAULT_PROTOCOLS
            /\ last' = [op |-> "register_handler",
                        args |-> [h |-> h, default_for_type |-> arg],
                        res |-> [outcome |-> r.outcome]]
            /\ affirmed' =
                   IF /\ r.outcome = "return"
                      /\ h.kind = "encoder"
                      /\ Truthy(BindDefaultForType(arg))
                   THEN affirmed \cup {h.python_type}
                   ELSE affirmed
            /\ UNCHANGED <<calls, runnerVars>>

\* to_literal(ctx, StructuredDataset(dataframe, uri, file_format), python_type,
\* expected): the value is a wrapper the caller has just built; built keeps
\* the constructor arguments.
ToLiteralWrapper ==
    \E a \in WrapperArgs,
       python_type \in WrapperTypes \cup DataframeTypes,
       expected \in LiteralTypes :
        LET python_val == StructuredDataset(a.dataframe, a.uri, a.file_format, PyNone)
        IN  /\ Idle
            /\ last' = [op |-> "to_literal",
                        args |-> [python_val |-> python_val,
                                  python_type |-> python_type,
                                  expected |-> expected,
                                  built |-> a],
                        res |-> to_literal(python_val, python_type, expected)]
            /\ ENCODERS' = encoders_after(
                               to_literal(python_val, python_type, expected))
            /\ UNCHANGED <<DECODERS, DEFAULT_PROTOCOLS, DEFAULT_FORMATS>>
            /\ UNCHANGED <<affirmed, calls, runnerVars>>

\* to_literal(ctx, df, python_type, expected): the value is a bare dataframe.
ToLiteralDataframe ==
    \E python_val \in Dataframes,
       python_type \in WrapperTypes \cup DataframeTypes,
       expected \in LiteralTypes :
        /\ Idle
        /\ last' = [op |-> "to_literal",
                    args |-> [python_val |-> python_val,
                              python_type |-> python_type,
                              expected |-> expected,
                              built |-> EmptyDict],
                    res |-> to_literal(python_val, python_type, expected)]
        /\ ENCODERS' = encoders_after(to_literal(python_val, python_type, expected))
        /\ UNCHANGED <<DECODERS, DEFAULT_PROTOCOLS, DEFAULT_FORMATS>>
        /\ UNCHANGED <<affirmed, calls, runnerVars>>

\* The literal returned by the call before, when it was a successful encode.
Produced ==
    IF last.op = "to_literal" /\ last.res.outcome = "return"
    THEN {last.res.value} ELSE {}

\* to_python_value(ctx, lv, expected_python_type) on a literal from elsewhere.
ToPythonValue ==
    \E lv \in Literals,
       expected_python_type \in WrapperTypes \cup DataframeTypes :
        /\ Idle
        /\ last' = [op |-> "to_python_value",
                    args |-> [lv |-> lv,
                              expected_python_type |-> expected_python_type,
                              encoded |-> NoCall],
                    res |-> to_python_value(lv, expected_python_type)]
        /\ UNCHANGED <<registry, affirmed, calls, runnerVars>>

\* to_python_value on the literal the to_literal call before returned; encoded
\* keeps that call.
RoundTrip ==
    \E lv \in Produced,
       expected_python_type \in WrapperTypes \cup DataframeTypes :
        /\ last' = [op |-> "to_python_value",
                    args |-> [lv |-> lv,
                              expected_python_type |-> expected_python_type,
                              encoded |-> last],
                    res |-> to_python_value(lv, expected_python_type)]
        /\ UNCHANGED <<registry, affirmed, calls, runnerVars>>

\* FLYTE_DATASET_TRANSFORMER.get_literal_type(t)
GetLiteralType ==
    \E t \in WrapperTypes \cup DataframeTypes :
        /\ Idle
        /\ last' = [op |-> "get_literal_type",
                    args |-> [t |-> t],
                    res |-> get_literal_type(t)]
        /\ UNCHANGED <<registry, affirmed, calls, runnerVars>>

\* The caller drops the report.
Forget ==
    /\ ~Idle
    /\ last' = NoCall
    /\ UNCHANGED <<registry, affirmed, calls, runnerVars>>

Next ==
    \/ Register
    \/ ToLiteralWrapper
    \/ ToLiteralDataframe
    \/ ToPythonValue
    \/ RoundTrip
    \/ GetLiteralType
    \/ Forget

Spec == Init /\ [][Next]_vars


(* ---------------------------------------------------------------------- *)
(* Concurrent callers                                                      *)
(*                                                                         *)
(* The engine takes no lock. Two threads call the dispatch operations on   *)
(* the tables that import-time registration left; a to_literal call takes  *)
(* two steps, the reads of the default maps and then encode's lookups.     *)
(* ---------------------------------------------------------------------- *)

\* The calls the threads make.
ConcCalls ==
    { [op |-> "to_literal", python_val |-> python_val, python_type |-> python_type,
       expected |-> LiteralType(StructuredDatasetType(<<"a">>))] :
          python_val \in Dataframes, python_type \in DataframeTypes }
    \cup
    { [op |-> "to_literal",
       python_val |-> StructuredDataset(a.dataframe, a.uri, a.file_format, PyNone),
       python_type |-> "StructuredDataset",
       expected |-> LiteralType(StructuredDatasetType(<<>>))] :
          a \in [dataframe : Dataframes, uri : {NoUri}, file_format : FileFormatArgs] }
    \cup
    { [op |-> "to_python_value", lv |-> lv, expected_python_type |-> "Frame"] :
          lv \in Literals }
    \cup
    { [op |-> "get_literal_type", t |-> "Frame"] }

\* The report of call c when nothing runs between its steps.
alone(c) ==
    IF c.op = "to_literal" THEN to_literal(c.python_val, c.python_type, c.expected)
    ELSE IF c.op = "to_python_value" THEN to_python_value(c.lv, c.expected_python_type)
    ELSE get_literal_type(c.t)

\* Registration happens at import time, before the threads dispatch.
ConcRegister ==
    /\ \A t \in Threads : calls[t] = Ready
    /\ Register

\* Thread t starts call c. A to_literal call reads the default maps and stops
\* before encode; the other calls run to their end.
Begin(t) ==
    \E c \in ConcCalls :
        /\ Idle
        /\ calls[t] = Ready
        /\ IF c.op = "to_literal"
           THEN LET r == to_literal_resolve(c.python_val, c.python_type, c.expected)
                IN  calls' = [calls EXCEPT ![t] =
                        IF r.raised
                        THEN [pc |-> "done", call |-> c, alone |-> alone(c),
                              res |-> r.report, overlapped |-> FALSE]
                        ELSE [pc |-> "resolved", call |-> c, alone |-> alone(c),
                              pending |-> r]]
           ELSE calls' = [calls EXCEPT ![t] =
                        [pc |-> "done", call |-> c, alone |-> alone(c),
                         res |-> alone(c), overlapped |-> FALSE]]
        /\ UNCHANGED <<registry, last, affirmed, runnerVars>>

\* Thread t runs the encode call of its to_literal; overlapped tells whether
\* the other thread was then between its own two steps.
Complete(t) ==
    /\ calls[t].pc = "resolved"
    /\ LET r == calls[t].pending
           res == encode(r.sd, r.df_type, r.protocol, r.format, r.reads)
       IN  /\ calls' = [calls EXCEPT ![t] =
                   [pc |-> "done", call |-> calls[t].call, alone |-> calls[t].alone,
                    res |-> res,
                    overlapped |-> \E u \in Threads \ {t} : calls[u].pc = "resolved"]]
           /\ ENCODERS' = encoders_after(res)
    /\ UNCHANGED <<DECODERS, DEFAULT_PROTOCOLS, DEFAULT_FORMATS>>
    /\ UNCHANGED <<last, affirmed, runnerVars>>

\* Thread t takes its result and is ready for another call.
Return(t) ==
    /\ calls[t].pc = "done"
    /\ calls' = [calls EXCEPT ![t] = Ready]
    /\ UNCHANGED <<registry, last, affirmed, runnerVars>>

NextConc ==
    \/ ConcRegister
    \/ Forget
    \/ \E t \in Threads : Begin(t)
    \/ \E t \in Threads : Complete(t)
    \/ \E t \in Threads : Return(t)

SpecConc == Init /\ [][NextConc]_vars


(* ---------------------------------------------------------------------- *)
(* The SageMaker runner script                                             *)
(*                                                                         *)
(* Command-line arguments are sequences of one-character strings; i counts *)
(* from 0 as in the script.                                                *)
(* ---------------------------------------------------------------------- *)

\* The longest argument vector explored.
MaxArgs == 3

FLYTE_ARG_PREFIX == <<"-", "-", "_", "_", "F", "L", "Y", "T", "E">>
FLYTE_ENV_VAR_PREFIX == FLYTE_ARG_PREFIX \o <<"_", "E", "N", "V", "_", "V", "A", "R", "_">>
FLYTE_CMD_PREFIX == FLYTE_ARG_PREFIX \o <<"_", "C", "M", "D", "_">>
FLYTE_ARG_SUFFIX == <<"_", "_">>

\* The characters of the arguments below, in the order of their code points.
CodePoints ==
    <<"-", "0", "1", "2", "3", "A", "C", "D", "E", "F", "L", "M", "N", "R", "T",
      "U", "V", "Y", "_", "a", "b", "c", "e", "v", "x", "y">>

\* ord(c), up to an order-preserving renumbering.
ord(c) == CHOOSE k \in 1..Len(CodePoints) : CodePoints[k] = c

\* a < b on str: the first differing character decides, a proper prefix is
\* smaller.
str_less(a, b) ==
    \/ \E k \in 1..Len(a) :
          /\ k <= Len(b)
          /\ SubSeq(a, 1, k - 1) = SubSeq(b, 1, k - 1)
          /\ ord(a[k]) < ord(b[k])
    \/ Len(a) < Len(b) /\ SubSeq(b, 1, Len(a)) = a

\* s.startswith(prefix)
startswith(s, prefix) ==
    Len(s) >= Len(prefix) /\ SubSeq(s, 1, Len(prefix)) = prefix

\* s.endswith(suffix)
endswith(s, suffix) ==
    Len(s) >= Len(suffix) /\ SubSeq(s, Len(s) - Len(suffix) + 1, Len(s)) = suffix

\* s[n:]
slice_from(s, n) == IF n >= Len(s) THEN <<>> ELSE SubSeq(s, n + 1, Len(s))

\* s[:-n]
slice_until_last(s, n) == IF n >= Len(s) THEN <<>> ELSE SubSeq(s, 1, Len(s) - n)

\* s.split('_', maxsplit=1)
split_once(s) ==
    LET at == { k \in 1..Len(s) : s[k] = "_" }
    IN  IF at = {}
        THEN <<s>>
        ELSE LET k == CHOOSE a \in at : \A b \in at : a <= b
             IN  <<SubSeq(s, 1, k - 1), slice_from(s, k)>>

\* unknown[len(prefix):][: -len(FLYTE_ARG_SUFFIX)]
strip_flag(unknown, prefix) ==
    slice_until_last(slice_from(unknown, Len(prefix)), Len(FLYTE_ARG_SUFFIX))

\* The arguments SageMaker may hand to the script: command flags with the
\* indices 1, 2 and 10, a command flag without an underscore after its index,
\* an env-var flag, a plain value and the dummy-value placeholder.
Arguments ==
    { FLYTE_CMD_PREFIX \o <<"1", "_", "x", "_", "y">> \o FLYTE_ARG_SUFFIX,
      FLYTE_CMD_PREFIX \o <<"2", "_", "b">> \o FLYTE_ARG_SUFFIX,
      FLYTE_CMD_PREFIX \o <<"1", "0", "_", "c">> \o FLYTE_ARG_SUFFIX,
      FLYTE_CMD_PREFIX \o <<"3">> \o FLYTE_ARG_SUFFIX,
      FLYTE_ENV_VAR_PREFIX \o <<"e">> \o FLYTE_ARG_SUFFIX,
      <<"v">>,
      <<"_", "_">> \o <<"F", "L", "Y", "T", "E", "_", "C", "M", "D", "_", "D", "U", "M", "M", "Y", "_", "V", "A", "L", "U", "E">>
          \o <<"_", "_">> }

\* The argument vectors parse_known_args may return.
ArgumentVectors == UNION { [1..n -> Arguments] : n \in 0..MaxArgs }

\* One iteration of the while loop at index idx: how it ends, and i, flyte_cmd
\* and env_vars when it does.
loop_body(u, idx, cmd, env) ==
    LET unknown == u[idx + 1]
    IN  IF startswith(unknown, FLYTE_CMD_PREFIX) /\ endswith(unknown, FLYTE_ARG_SUFFIX)
        THEN LET parts == split_once(strip_flag(unknown, FLYTE_CMD_PREFIX))
             IN  IF Len(parts) < 2
                 THEN [outcome |-> "IndexError", i |-> idx,
                       flyte_cmd |-> cmd, env_vars |-> env]
                 ELSE [outcome |-> "next", i |-> idx + 1,
                       flyte_cmd |-> Append(cmd, <<parts[1], parts[2]>>),
                       env_vars |-> env]
        ELSE IF /\ startswith(unknown, FLYTE_ENV_VAR_PREFIX)
                /\ endswith(unknown, FLYTE_ARG_SUFFIX)
        THEN LET processed == strip_flag(unknown, FLYTE_ENV_VAR_PREFIX)
             IN  IF idx + 1 >= Len(u)
                 THEN [outcome |-> "IndexError", i |-> idx + 1,
                       flyte_cmd |-> cmd, env_vars |-> env]
                 ELSE IF ~startswith(u[idx + 2], FLYTE_ARG_PREFIX)
                 THEN [outcome |-> "next", i |-> idx + 2, flyte_cmd |-> cmd,
                       env_vars |-> DictSet(env, processed, u[idx + 2])]
                 ELSE [outcome |-> "next", i |-> idx + 1,
                       flyte_cmd |-> cmd, env_vars |-> env]
        ELSE [outcome |-> "next", i |-> idx + 1, flyte_cmd |-> cmd, env_vars |-> env]

RECURSIVE list_sort(_)
\* flyte_cmd.sort(key=lambda x: x[0]): stable, the keys are str.
list_sort(pairs) ==
    IF pairs = <<>>
    THEN <<>>
    ELSE LET front == list_sort(SubSeq(pairs, 1, Len(pairs) - 1))
             x == pairs[Len(pairs)]
             n == Cardinality({ k \in 1..Len(front) : ~str_less(x[1], front[k][1]) })
         IN  SubSeq(front, 1, n) \o <<x>> \o SubSeq(front, n + 1, Len(front))

\* [x[1] for x in flyte_cmd]
tokens(pairs) == [k \in 1..Len(pairs) |-> pairs[k][2]]

\* The script has read its arguments and reached the while loop.
RunnerInit ==
    /\ EngineInit
    /\ unknowns \in ArgumentVectors
    /\ i = 0
    /\ flyte_cmd = <<>>
    /\ env_vars = EmptyDict
    /\ pc = "loop"

\* One iteration of `while i < len(unknowns)`; an IndexError ends the script.
Iterate ==
    /\ pc = "loop"
    /\ i < Len(unknowns)
    /\ LET r == loop_body(unknowns, i, flyte_cmd, env_vars)
       IN  /\ i' = r.i
           /\ flyte_cmd' = r.flyte_cmd
           /\ env_vars' = r.env_vars
           /\ pc' = IF r.outcome = "next" THEN "loop" ELSE r.outcome
    /\ UNCHANGED <<registry, last, affirmed, calls, unknowns>>

\* The loop is over: the command is sorted and projected, the environment is
\* set and the command is launched.
Launch ==
    /\ pc = "loop"
    /\ ~(i < Len(unknowns))
    /\ flyte_cmd' = tokens(list_sort(flyte_cmd))
    /\ pc' = "done"
    /\ UNCHANGED <<registry, last, affirmed, calls, unknowns, i, env_vars>>

NextRunner ==
    \/ Iterate
    \/ Launch

SpecRunner == RunnerInit /\ [][NextRunner]_vars


(* ---------------------------------------------------------------------- *)
(* Properties of registration                                              *)
(* ---------------------------------------------------------------------- *)

\* The step is a register_handler call.
RegisterStep == last' # last /\ last'.op = "register_handler"

\* The table a handler of this kind goes to, before and after the step.
TableOf(h) == IF h.kind = "encoder" THEN ENCODERS ELSE DECODERS
TableOfAfter(h) == IF h.kind = "encoder" THEN ENCODERS' ELSE DECODERS'

\* C1: register_handler with a handler whose (python_type, protocol,
\* supported_format) key is already in the table of its capability fails with
\* the duplicate error (ValueError) and leaves the stored handler and the
\* recorded defaults unchanged; with a key that is not in the table (such as
\* another format for the same type) it succeeds and stores the handler.
C1_DuplicateRejected ==
    [][ (RegisterStep /\ last'.args.h.kind \in {"encoder", "decoder"}) =>
          LET h == last'.args.h
              t == h.python_type
              p == h.protocol
              f == h.supported_format
          IN  IF HasEntry(TableOf(h), t, p, f)
              THEN /\ last'.res.outcome = "ValueError"
                   /\ HasEntry(TableOfAfter(h), t, p, f)
                   /\ TableOfAfter(h)[t][p][f] = TableOf(h)[t][p][f]
                   /\ DEFAULT_PROTOCOLS' = DEFAULT_PROTOCOLS
                   /\ DEFAULT_FORMATS' = DEFAULT_FORMATS
              ELSE /\ last'.res.outcome = "return"
                   /\ HasEntry(TableOfAfter(h), t, p, f)
                   /\ TableOfAfter(h)[t][p][f] = h
      ]_vars

\* A second handler object was refused at a key that holds another object.
C1_Witness ==
    /\ last.op = "register_handler"
    /\ last.res.outcome = "ValueError"
    /\ LET h == last.args.h
       IN  /\ HasEntry(TableOf(h), h.python_type, h.protocol, h.supported_format)
           /\ TableOf(h)[h.python_type][h.protocol][h.supported_format].name # h.name

\* C2: a successful register_handler(h, default_for_type=True) makes the
\* recorded default protocol and format of h.python_type those of h; a
\* successful register_handler(h, default_for_type=False) leaves both default
\* dicts as they were.
C2_DefaultRecorded ==
    [][ (RegisterStep /\ last'.res.outcome = "return") =>
          LET h == last'.args.h
              t == h.python_type
          IN  /\ last'.args.default_for_type = "True" =>
                    /\ t \in DOMAIN DEFAULT_PROTOCOLS' /\ t \in DOMAIN DEFAULT_FORMATS'
                    /\ DEFAULT_PROTOCOLS'[t] = h.protocol
                    /\ DEFAULT_FORMATS'[t] = h.supported_format
              /\ last'.args.default_for_type = "False" =>
                    /\ DEFAULT_PROTOCOLS' = DEFAULT_PROTOCOLS
                    /\ DEFAULT_FORMATS' = DEFAULT_FORMATS
      ]_vars

\* A handler was registered with default_for_type=False for a type whose
\* recorded default is that of another handler.
C2_Witness ==
    /\ last.op = "register_handler"
    /\ last.res.outcome = "return"
    /\ last.args.default_for_type = "False"
    /\ LET h == last.args.h
       IN  /\ h.python_type \in DOMAIN DEFAULT_PROTOCOLS
           /\ <<DEFAULT_PROTOCOLS[h.python_type], DEFAULT_FORMATS[h.python_type]>>
                  # <<h.protocol, h.supported_format>>

\* C3 as stated: a successful registration that does not pass default_for_type,
\* for a type that already has a recorded default, does not change that
\* default.
C3_FirstDefaultKept ==
    [][ ( /\ RegisterStep
          /\ last'.res.outcome = "return"
          /\ last'.args.default_for_type = Omitted
          /\ last'.args.h.python_type \in DOMAIN DEFAULT_PROTOCOLS ) =>
          LET t == last'.args.h.python_type
          IN  /\ DEFAULT_PROTOCOLS'[t] = DEFAULT_PROTOCOLS[t]
              /\ DEFAULT_FORMATS'[t] = DEFAULT_FORMATS[t]
      ]_vars

\* C3 (amended): the recorded default of a type is that of the last handler
\* registered for it with default_for_type true, and omitting the argument
\* counts as true: a successful registration with the argument omitted or
\* True sets the type's default protocol and format to the handler's and
\* leaves the defaults of the other types alone; a registration that passes
\* False or None, or one that fails, leaves both default dicts unchanged.
C3_LastAffirmedDefault ==
    [][ RegisterStep =>
          LET h == last'.args.h
              t == h.python_type
              arg == last'.args.default_for_type
          IN  IF last'.res.outcome = "return" /\ arg \in {Omitted, "True"}
              THEN /\ DEFAULT_PROTOCOLS' = DictSet(DEFAULT_PROTOCOLS, t, h.protocol)
                   /\ DEFAULT_FORMATS' = DictSet(DEFAULT_FORMATS, t, h.supported_format)
              ELSE /\ DEFAULT_PROTOCOLS' = DEFAULT_PROTOCOLS
                   /\ DEFAULT_FORMATS' = DEFAULT_FORMATS
      ]_vars

\* A handler registered without the argument became the default of a type
\* for which a handler with another protocol or format is stored as well.
C3_Witness ==
    /\ last.op = "register_handler"
    /\ last.res.outcome = "return"
    /\ last.args.default_for_type = Omitted
    /\ LET h == last.args.h
           t == h.python_type
       IN  /\ t \in DOMAIN DEFAULT_PROTOCOLS
           /\ DEFAULT_PROTOCOLS[t] = h.protocol
           /\ DEFAULT_FORMATS[t] = h.supported_format
           /\ \E k \in Entries(ENCODERS) \cup Entries(DECODERS) :
                  k[1] = t /\ <<k[2], k[3]>> # <<h.protocol, h.supported_format>>

(* ---------------------------------------------------------------------- *)
(* Properties of the encode path                                           *)
(* ---------------------------------------------------------------------- *)

\* The URI has the form scheme://..., and its scheme.
HasSchemeForm(uri) ==
    \E j \in 2..(Len(uri) - 2) :
        /\ \A k \in 1..(j - 1) : uri[k] \in WordChars
        /\ uri[j] = ":" /\ uri[j + 1] = "/" /\ uri[j + 2] = "/"

SchemeName(uri) ==
    LET j == CHOOSE e \in 2..(Len(uri) - 2) :
                 /\ \A k \in 1..(e - 1) : uri[k] \in WordChars
                 /\ uri[e] = ":"
    IN  Join(SubSeq(uri, 1, j - 1))

\* The last call was to_literal with the wrapper type expected and a wrapper
\* as value.
WrapperEncode ==
    /\ last.op = "to_literal"
    /\ last.args.python_type \in WrapperTypes
    /\ last.args.python_val.cls \in WrapperTypes

\* The last call was to_literal with a dataframe type expected and a bare
\* dataframe as value.
DataframeEncode ==
    /\ last.op = "to_literal"
    /\ last.args.python_type \in DataframeTypes
    /\ last.args.python_val.cls \in DataframeTypes

\* The dataframe type an encode dispatch is about.
DispatchType ==
    IF last.args.python_type \in WrapperTypes
    THEN last.args.python_val.dataframe.cls
    ELSE last.args.python_type

\* C4: on the encode path with a wrapper whose dataframe type has a recorded
\* default, the call gets as far as the encoder lookup, and the protocol of
\* that lookup is the scheme of the wrapper's URI when the URI has the form
\* scheme://..., and the type's recorded default protocol when the URI is
\* absent, empty or without scheme.
C4_ProtocolFromUriOrDefault ==
    (WrapperEncode /\ DispatchType \in DOMAIN DEFAULT_PROTOCOLS) =>
        LET uri == last.args.python_val.uri
        IN  /\ last.res.key # <<>>
            /\ last.res.key[2] =
                  IF UriTruthy(uri) /\ HasSchemeForm(uri)
                  THEN SchemeName(uri)
                  ELSE DEFAULT_PROTOCOLS[DispatchType]

\* C5: on the encode path with a wrapper, the format of the encoder lookup is
\* the format the caller gave the wrapper, and the type's recorded default
\* format when the caller gave none; a wrapper built without URI and without
\* format, for a type whose default (P, F) has an encoder, is handed to the
\* encoder stored at (type, P, F).
C5_FormatDeclaredOrDefault ==
    (WrapperEncode /\ last.res.key # <<>>) =>
        LET t == DispatchType
            a == last.args.built
        IN  /\ last.res.key[3] =
                  IF a.file_format = Omitted THEN DEFAULT_FORMATS[t]
                  ELSE a.file_format
            /\ ( /\ a.uri = NoUri
                 /\ a.file_format = Omitted
                 /\ HasEntry(ENCODERS, t, DEFAULT_PROTOCOLS[t], DEFAULT_FORMATS[t]) ) =>
                   /\ last.res.outcome = "return"
                   /\ Len(last.res.invoked) = 1
                   /\ last.res.invoked[1].handler =
                          ENCODERS[t][DEFAULT_PROTOCOLS[t]][DEFAULT_FORMATS[t]].name

\* C6: an encode dispatch, with a wrapper or with a bare dataframe, either
\* invokes an encoder or fails with the not-found error of the level that is
\* unresolved: "not found" when the type has no encoder (also when the type
\* has no recorded default), "not found 2" when the protocol is missing,
\* "not found 3" when the format is missing; a failing dispatch invokes no
\* handler.  (Wrappers whose URI has no scheme are left to C4.)
C6_NotFoundNamesLevel ==
    ( \/ DataframeEncode
      \/ ( /\ WrapperEncode
           /\ ( UriTruthy(last.args.python_val.uri) =>
                    HasSchemeForm(last.args.python_val.uri) ) ) ) =>
        LET t == DispatchType
            key == last.res.key
        IN  \/ /\ last.res.outcome = "return"
               /\ Len(last.res.invoked) = 1
            \/ /\ last.res.invoked = <<>>
               /\ IF t \notin DOMAIN ENCODERS
                  THEN last.res.outcome = "Exception: not found"
                  ELSE /\ key # <<>>
                       /\ IF key[2] \notin DOMAIN ENCODERS[t]
                          THEN last.res.outcome = "Exception: not found 2"
                          ELSE last.res.outcome = "Exception: not found 3"

\* C9: an encode dispatch whose format has no encoder of its own, for a type
\* and protocol that have an encoder registered with the empty-string
\* format, is handed to that encoder.
C9_WildcardFormatMatches ==
    ( /\ last.op = "to_literal"
      /\ last.res.key # <<>>
      /\ ~HasEntry(ENCODERS, last.res.key[1], last.res.key[2], last.res.key[3])
      /\ HasEntry(ENCODERS, last.res.key[1], last.res.key[2], "") ) =>
        /\ last.res.outcome = "return"
        /\ Len(last.res.invoked) = 1
        /\ last.res.invoked[1].handler =
               ENCODERS[last.res.key[1]][last.res.key[2]][""].name

\* C10: to_literal with the wrapper type (or a subclass) expected and a value
\* that is no wrapper fails with the assertion's error, has read none of the
\* class-level dicts and has invoked no handler.
C10_NonWrapperRejected ==
    ( /\ last.op = "to_literal"
      /\ last.args.python_type \in WrapperTypes
      /\ last.args.python_val.cls \notin WrapperTypes ) =>
        /\ last.res.outcome = "AssertionError"
        /\ last.res.reads = {}
        /\ last.res.invoked = <<>>
        /\ last.res.key = <<>>

\* A bare dataframe was refused although its type has a default with an
\* encoder, under the wrapper type and under its subclass.
C10_Witness ==
    /\ last.op = "to_literal"
    /\ last.args.python_type = "_TypedStructuredDataset"
    /\ last.args.python_val.cls \in DataframeTypes
    /\ last.res.outcome = "AssertionError"
    /\ LET t == last.args.python_val.cls
       IN  /\ t \in DOMAIN DEFAULT_PROTOCOLS
           /\ HasEntry(ENCODERS, t, DEFAULT_PROTOCOLS[t], DEFAULT_FORMATS[t])

(* ---------------------------------------------------------------------- *)
(* Properties of the decode path                                           *)
(* ---------------------------------------------------------------------- *)

\* C7: to_python_value with the wrapper type or a subclass as expected type
\* returns, in every registry state, a wrapper with the literal's URI and
\* metadata, without reading the decoder table and without invoking a
\* handler.
C7_WrapperDecodeIsLazy ==
    ( /\ last.op = "to_python_value"
      /\ last.args.expected_python_type \in WrapperTypes ) =>
        /\ last.res.outcome = "return"
        /\ last.res.value.cls \in WrapperTypes
        /\ last.res.value.uri = last.args.lv.scalar.structured_dataset.uri
        /\ last.res.value.metadata = last.args.lv.scalar.structured_dataset.metadata
        /\ "DECODERS" \notin last.res.reads
        /\ last.res.invoked = <<>>

\* C8: when to_python_value is given the literal that encoding a wrapper
\* around a dataframe of type T returned, with T as expected type, and a
\* decoder is stored at (T, protocol of the literal's URI scheme else T's
\* default, format of the literal's metadata else T's default), that decoder
\* is invoked and the value returned is not None.
C8_RoundTripDecodes ==
    ( /\ last.op = "to_python_value"
      /\ last.args.encoded.op = "to_literal"
      /\ last.args.encoded.args.python_type \in WrapperTypes
      /\ last.args.expected_python_type = last.args.encoded.res.key[1]
      /\ last.args.expected_python_type \in DOMAIN DEFAULT_PROTOCOLS
      /\ last.args.expected_python_type \in DOMAIN DEFAULT_FORMATS ) =>
        LET t == last.args.expected_python_type
            sd == last.args.lv.scalar.structured_dataset
            p == IF UriTruthy(sd.uri) /\ HasSchemeForm(sd.uri)
                 THEN SchemeName(sd.uri) ELSE DEFAULT_PROTOCOLS[t]
            f == IF Truthy(sd.metadata.format)
                 THEN sd.metadata.format ELSE DEFAULT_FORMATS[t]
        IN  HasEntry(DECODERS, t, p, f) =>
                /\ last.res.outcome = "return"
                /\ Len(last.res.invoked) = 1
                /\ last.res.invoked[1].handler = DECODERS[t][p][f].name
                /\ last.res.value # PyNone

(* ---------------------------------------------------------------------- *)
(* Properties of get_literal_type and of the tables over time              *)
(* ---------------------------------------------------------------------- *)

\* C11: get_literal_type returns, for every type and in every registry state,
\* the literal type of a structured dataset with an empty column list; it
\* reads none of the class-level dicts and leaves all four unchanged.
C11_LiteralTypeIsFixed ==
    [][ (last' # last /\ last'.op = "get_literal_type") =>
          /\ last'.res.outcome = "return"
          /\ last'.res.value = [structured_dataset_type |-> [columns |-> <<>>]]
          /\ last'.res.reads = {}
          /\ last'.res.invoked = <<>>
          /\ registry' = registry
      ]_vars

\* get_literal_type was called for the typed wrapper class while handlers
\* and defaults were registered.
C11_Witness ==
    /\ last.op = "get_literal_type"
    /\ last.args.t = "_TypedStructuredDataset"
    /\ last.res.outcome = "return"
    /\ NumHandlers > 0
    /\ DOMAIN DEFAULT_PROTOCOLS # {}

\* C12: a key (type, protocol, format) that holds a handler in the encoder or
\* decoder table holds the same handler after every step: no registration
\* and no dispatch removes an entry or replaces its handler.
C12_TablesOnlyGrow ==
    [][ /\ \A k \in Entries(ENCODERS) :
              /\ HasEntry(ENCODERS', k[1], k[2], k[3])
              /\ ENCODERS'[k[1]][k[2]][k[3]] = ENCODERS[k[1]][k[2]][k[3]]
        /\ \A k \in Entries(DECODERS) :
              /\ HasEntry(DECODERS', k[1], k[2], k[3])
              /\ DECODERS'[k[1]][k[2]][k[3]] = DECODERS[k[1]][k[2]][k[3]]
      ]_vars

\* A handler was stored next to another format of the same type and protocol,
\* and that other entry is still there.
C12_Witness ==
    /\ last.op = "register_handler"
    /\ last.res.outcome = "return"
    /\ LET h == last.args.h
       IN  \E k \in Entries(TableOf(h)) :
               /\ k[1] = h.python_type
               /\ k[2] = h.protocol
               /\ k[3] # h.supported_format

\* C13: to_literal with a dataframe type expected and a bare dataframe, for a
\* type with recorded defaults, looks the encoder up at (expected type,
\* default protocol of the type, default format of the type); the encoder
\* found there receives a wrapper that holds the dataframe, no URI, and
\* metadata whose format is that default format and whose schema is the
\* schema hint of the expected literal type.
C13_BareDataframeUsesDefaults ==
    (DataframeEncode /\ last.args.python_type \in DOMAIN DEFAULT_FORMATS) =>
        LET t == last.args.python_type
            p == DEFAULT_PROTOCOLS[t]
            f == DEFAULT_FORMATS[t]
        IN  /\ last.res.key = <<t, p, f>>
            /\ last.res.reads = {"DEFAULT_FORMATS", "DEFAULT_PROTOCOLS", "ENCODERS"}
            /\ IF HasEntry(ENCODERS, t, p, f)
               THEN /\ last.res.outcome = "return"
                    /\ Len(last.res.invoked) = 1
                    /\ last.res.invoked[1].handler = ENCODERS[t][p][f].name
                    /\ last.res.invoked[1].arg.cls = "StructuredDataset"
                    /\ last.res.invoked[1].arg.dataframe = last.args.python_val
                    /\ last.res.invoked[1].arg.uri = NoUri
                    /\ last.res.invoked[1].arg.metadata =
                           [format |-> f,
                            structured_dataset_type |->
                                last.args.expected.structured_dataset_type]
               ELSE last.res.invoked = <<>>

\* A bare dataframe went to the encoder of a default format other than
\* "parquet", with a schema hint that has a column.
C13_Witness ==
    /\ DataframeEncode
    /\ last.res.outcome = "return"
    /\ last.args.python_val.cls = last.args.python_type
    /\ last.args.expected.structured_dataset_type.columns = <<"a">>
    /\ last.res.key[3] = "csv"
    /\ Len(last.res.invoked) = 1

C15_DispatchReadOnly ==
    [][ /\ (calls' # calls => registry' = registry)
        /\ \A t \in Threads :
              (calls[t].pc # "done" /\ calls'[t].pc = "done")
                  => calls'[t].res = calls'[t].alone ]_vars

\* Two to_literal calls overlapped, and the one that ended second found its
\* encoder.
C15_Witness ==
    \E t \in Threads :
        /\ calls[t].pc = "done"
        /\ calls[t].call.op = "to_literal"
        /\ calls[t].overlapped
        /\ calls[t].res.outcome = "return"
        /\ calls[t].res.invoked # <<>>


(* ---------------------------------------------------------------------- *)
(* C16                                                                     *)
(* ---------------------------------------------------------------------- *)

\* C16: register_handler puts an encoder only into ENCODERS and a decoder only
\* into DECODERS: the other table is left as it was, a (type, protocol, format)
\* key that is free in the handler's own table is accepted even when the other
\* table holds that key, and an object that is neither an encoder nor a
\* decoder is rejected with TypeError with all four dicts unchanged.
C16_TablesKeptApart ==
    [][ RegisterStep =>
          LET h == last'.args.h
              t == h.python_type
              p == h.protocol
              f == h.supported_format
          IN  /\ h.kind = "encoder" => DECODERS' = DECODERS
              /\ h.kind = "decoder" => ENCODERS' = ENCODERS
              /\ (h.kind \in {"encoder", "decoder"} /\ ~HasEntry(TableOf(h), t, p, f))
                    => /\ last'.res.outcome = "return"
                       /\ HasEntry(TableOfAfter(h), t, p, f)
                       /\ TableOfAfter(h)[t][p][f] = h
              /\ h.kind \notin {"encoder", "decoder"}
                    => /\ last'.res.outcome = "TypeError"
                       /\ registry' = registry ]_vars

\* A handler has just been registered under a key that the other table holds
\* too.
C16_Witness ==
    /\ last # NoCall
    /\ last.op = "register_handler"
    /\ last.res.outcome = "return"
    /\ \E k \in Entries(ENCODERS) \cap Entries(DECODERS) :
          /\ k[1] = last.args.h.python_type
          /\ k[2] = last.args.h.protocol
          /\ k[3] = last.args.h.supported_format


(* ---------------------------------------------------------------------- *)
(* C17                                                                     *)
(* ---------------------------------------------------------------------- *)

\* C17: once an encoder for type T has been registered successfully with a
\* true default_for_type (the types in affirmed), to_literal of a bare
\* dataframe of type T finds a registered encoder and returns its literal in
\* every later state, whatever was registered since.
C17_DefaultEncoderStaysUsable ==
    \A T \in affirmed :
        \A python_val \in { d \in Dataframes : TypeOf(d) = T },
           expected \in LiteralTypes :
            LET res == to_literal(python_val, T, expected)
            IN  /\ res.outcome = "return"
                /\ res.invoked # <<>>


(* ---------------------------------------------------------------------- *)
(* C18                                                                     *)
(* ---------------------------------------------------------------------- *)

\* C18: in every reachable state DEFAULT_PROTOCOLS and DEFAULT_FORMATS have the
\* same types as keys, and for every type T with a default a handler is
\* registered at (T, DEFAULT_PROTOCOLS[T], DEFAULT_FORMATS[T]) in ENCODERS or
\* in DECODERS.
C18_DefaultsPointAtHandlers ==
    /\ DOMAIN DEFAULT_PROTOCOLS = DOMAIN DEFAULT_FORMATS
    /\ \A T \in DOMAIN DEFAULT_PROTOCOLS :
          \/ HasEntry(ENCODERS, T, DEFAULT_PROTOCOLS[T], DEFAULT_FORMATS[T])
          \/ HasEntry(DECODERS, T, DEFAULT_PROTOCOLS[T], DEFAULT_FORMATS[T])

\* Both types have a default, the default of Frame has been moved by a later
\* registration and points at a decoder only.
C18_Witness ==
    /\ DOMAIN DEFAULT_PROTOCOLS = DataframeTypes
    /\ DOMAIN DEFAULT_FORMATS = DataframeTypes
    /\ Cardinality(Entries(ENCODERS) \cup Entries(DECODERS)) >= 3
    /\ ~HasEntry(ENCODERS, "Frame", DEFAULT_PROTOCOLS["Frame"], DEFAULT_FORMATS["Frame"])
    /\ HasEntry(DECODERS, "Frame", DEFAULT_PROTOCOLS["Frame"], DEFAULT_FORMATS["Frame"])


(* ---------------------------------------------------------------------- *)
(* C19, C20: the runner script                                             *)
(* ---------------------------------------------------------------------- *)

\* The argument is a command flag, an env-var flag.
IsCmdFlag(a) == startswith(a, FLYTE_CMD_PREFIX) /\ endswith(a, FLYTE_ARG_SUFFIX)
IsEnvFlag(a) ==
    ~IsCmdFlag(a) /\ startswith(a, FLYTE_ENV_VAR_PREFIX) /\ endswith(a, FLYTE_ARG_SUFFIX)

RECURSIVE IndexValue(_)
\* The number a string of decimal digits denotes.
IndexValue(digits) ==
    IF digits = <<>>
    THEN 0
    ELSE 10 * IndexValue(SubSeq(digits, 1, Len(digits) - 1))
         + (ord(digits[Len(digits)]) - ord("0"))

\* The (index, token) pairs of the command flags of a vector, in the order of
\* the vector.
CmdPairs(u) ==
    LET flags == SelectSeq(u, IsCmdFlag)
    IN  [k \in 1..Len(flags) |-> split_once(strip_flag(flags[k], FLYTE_CMD_PREFIX))]

\* C19: the command the runner launches consists of the tokens of the command
\* flags, one per flag, in ascending order of their numeric index, wherever
\* the flags stand in the vector and also when an index has two digits; env-var
\* flags, their values and dummy values add no token.
C19_CommandInIndexOrder ==
    pc = "done" =>
        LET P == CmdPairs(unknowns)
        IN  /\ Len(flyte_cmd) = Len(P)
            /\ \E f \in Permutations(1..Len(P)) :
                  /\ \A k \in 1..Len(P) : flyte_cmd[k] = P[f[k]][2]
                  /\ \A j, k \in 1..Len(P) :
                        j < k => IndexValue(P[f[j]][1]) <= IndexValue(P[f[k]][1])

\* C20: every iteration of the parsing loop moves i forward and reads only
\* positions inside the vector (no IndexError), also when an env-var flag is
\* the last argument and when a command flag has no underscore after its
\* index; an env-var flag followed by a Flyte-prefixed token sets no variable
\* and leaves i at that token, which the next iteration processes.
C20_ReadsInsideVector ==
    [][ (pc = "loop" /\ i < Len(unknowns)) =>
          /\ pc' = "loop"
          /\ i' > i
          /\ i' <= Len(unknowns)
          /\ ( /\ IsEnvFlag(unknowns[i + 1])
               /\ i + 1 < Len(unknowns)
               /\ startswith(unknowns[i + 2], FLYTE_ARG_PREFIX) )
                => (env_vars' = env_vars /\ i' = i + 1) ]_vars

====
